---------------------------- MODULE Spec2Model ----------------------------
(***************************************************************************)
(* Ledger of src/src/accounts.rs: Accounts::handle_transaction applied to  *)
(* a stream of Transaction records (src/src/csv_reader.rs).                *)
(*                                                                         *)
(* f64 values are modelled by class: a finite value is an integer in       *)
(* -F64Max..F64Max, plus NaN, +inf and -inf with IEEE-754 comparison and   *)
(* arithmetic rules.  A sum is rounded to the nearest f64 where f64 is     *)
(* coarse, in the binade of f64::MAX on either side of zero: a small       *)
(* amount added to or taken from +-f64::MAX is absorbed.  Below that       *)
(* binade finite arithmetic is exact.                                      *)
(***************************************************************************)
EXTENDS Integers, Sequences, FiniteSets, TLC

VARIABLES
    inner,  \* Accounts.inner : client id -> Account
    tx,     \* Accounts.tx    : tx id -> stored Transaction
    req,    \* the Transaction passed to the last handle_transaction call
    res,    \* what that call returned
    pre,    \* Accounts (inner, tx) as it was when that call started
    prev,   \* the call before the last one, when it was a successful Dispute
    calls,  \* number of records handed to handle_transaction so far
    net,    \* per client: amounts of the Ok Deposits, minus those of the Ok
            \* Withdrawals, minus the stored amounts of the Ok Chargebacks
    input,  \* app_main: the items the CsvReader iterator yields, in order
    pos,    \* app_main: number of items taken from the iterator so far
    pc,     \* app_main: where it is, or the AppError it returned
    exports,    \* app_main: number of calls of output_as_csv so far
    failures    \* number of items so far that made a ? of the loop return

ledgerVars == <<inner, tx, req, res, pre, prev, calls, net>>
appVars == <<input, pos, pc, exports, failures>>
vars == <<inner, tx, req, res, pre, prev, calls, net, input, pos, pc, exports, failures>>

---------------------------------------------------------------------------
(* Bounds of the exploration *)
MaxClient == 2      \* client ids 1..MaxClient
MaxTx     == 2      \* tx ids 1..MaxTx
MaxAmount == 1      \* valid finite amounts 1..MaxAmount
MaxCalls  == 4      \* length of the longest stream of records explored

---------------------------------------------------------------------------
(* f64 *)
F64Max == 1000000          \* stands for f64::MAX
F64HalfUlp == 10000        \* stands for half the spacing of f64 at f64::MAX

Fin(n) == [c |-> "fin", v |-> n]
NaN    == [c |-> "nan", v |-> 0]
Inf    == [c |-> "inf", v |-> 0]
NegInf == [c |-> "ninf", v |-> 0]
Zero   == Fin(0)

IsNaN(a) == a.c = "nan"
IsFinite(a) == a.c = "fin"

\* a > b on f64: false as soon as one side is NaN
FGt(a, b) ==
    CASE IsNaN(a) \/ IsNaN(b) -> FALSE
      [] a.c = "ninf" -> FALSE
      [] b.c = "inf" -> FALSE
      [] a.c = "inf" -> TRUE
      [] b.c = "ninf" -> TRUE
      [] OTHER -> a.v > b.v

\* a == b on f64: NaN equals nothing
FEq(a, b) == ~IsNaN(a) /\ ~IsNaN(b) /\ a.c = b.c /\ a.v = b.v

FNeg(a) ==
    CASE a.c = "fin" -> Fin(-a.v)
      [] a.c = "inf" -> NegInf
      [] a.c = "ninf" -> Inf
      [] OTHER -> NaN

\* the spacing of f64 in the binade of f64::MAX
F64Ulp == 2 * F64HalfUlp

\* the number of spacings below f64::MAX of the f64 nearest to the magnitude
\* F64Max - d; a tie goes to the even mantissa, which f64::MAX (all ones)
\* is not; a negative number of spacings is beyond f64::MAX
StepsBelowMax(d) ==
    LET k == d \div F64Ulp
        r == d % F64Ulp
    IN  IF r < F64HalfUlp THEN k
        ELSE IF r > F64HalfUlp THEN k + 1
        ELSE IF k % 2 = 1 THEN k ELSE k + 1

\* an exact finite sum rounded to the nearest f64 (round to nearest, ties to
\* even): in the binade of f64::MAX the result is a whole number of spacings
\* below f64::MAX, so that what is less than half a spacing from +-f64::MAX
\* becomes +-f64::MAX, and what is half a spacing or more beyond it becomes
\* an infinity; a smaller magnitude is kept as it is
Round(s) ==
    LET m == IF s < 0 THEN 0 - s ELSE s
        k == StepsBelowMax(F64Max - m)
        r == F64Max - k * F64Ulp
    IN  IF 2 * m <= F64Max THEN Fin(s)
        ELSE IF k < 0 THEN (IF s < 0 THEN NegInf ELSE Inf)
        ELSE IF s < 0 THEN Fin(0 - r) ELSE Fin(r)

\* a + b on f64
FAdd(a, b) ==
    CASE IsNaN(a) \/ IsNaN(b) -> NaN
      [] a.c = "fin" /\ b.c = "fin" -> Round(a.v + b.v)
      [] a.c = "fin" -> b
      [] b.c = "fin" -> a
      [] a.c = b.c -> a
      [] OTHER -> NaN

\* a - b on f64
FSub(a, b) == FAdd(a, FNeg(b))

---------------------------------------------------------------------------
(* Option<f64> *)
None == <<>>
Some(a) == <<a>>
IsSome(o) == Len(o) = 1
Unwrap(o) == o[1]

(* Result<_, TransactionError>: kind is "Ok" or the variant, arg its payload *)
Ok == [kind |-> "Ok", arg |-> 0]
Err(k, a) == [kind |-> k, arg |-> a]

(* csv_reader.rs *)
TransactionKind == {"Deposit", "Withdrawal", "Dispute", "Resolve", "Chargeback"}

\* Transaction::new
Transaction(kind, client, id, amount) ==
    [tx |-> id, kind |-> kind, client |-> client, amount |-> amount,
     under_dispute |-> FALSE]

(* accounts.rs *)
\* Account::new
AccountNew == [available |-> Zero, held |-> Zero, total |-> Zero, locked |-> FALSE]

\* Accounts::new
AccountsNew == [inner |-> <<>>, tx |-> <<>>]

\* the result of one call: the two maps as the call leaves them, and its return value
Out(i, h, r) == [inner |-> i, tx |-> h, res |-> r]

\* Accounts::try_get_client_account: the account, or UnknownClient
HasClient(i, client) == client \in DOMAIN i

\* get_amount with the comparison weakened to a >= 0.0
get_amount_AcceptsZero(t) ==
    IF IsSome(t.amount)
    THEN IF FGt(Unwrap(t.amount), Zero) \/ FEq(Unwrap(t.amount), Zero)
         THEN [v |-> Unwrap(t.amount), ok |-> TRUE]
         ELSE [v |-> Unwrap(t.amount), ok |-> FALSE]
    ELSE [v |-> Zero, ok |-> TRUE]

\* get_amount: Ok(a) when a > 0.0, Err(InvalidAmount(a)) otherwise, Ok(0.0) on None
get_amount(t) ==
    IF IsSome(t.amount)
    THEN IF FGt(Unwrap(t.amount), Zero)
         THEN [v |-> Unwrap(t.amount), ok |-> TRUE]
         ELSE [v |-> Unwrap(t.amount), ok |-> FALSE]
    ELSE [v |-> Zero, ok |-> TRUE]

\* the Deposit arm without its contains_key check
Deposit_NoDuplicateCheck(i, h, t, amount) ==
    IF ~HasClient(i, t.client) THEN Out(i, h, Err("UnknownClient", t.client))
    ELSE IF i[t.client].locked THEN Out(i, h, Err("AccountLocked", t.client))
    ELSE LET account == i[t.client]
             avail == FAdd(account.available, amount)
             total == FAdd(account.total, amount)
             i2 == [i EXCEPT ![t.client] =
                        [account EXCEPT !.available = avail, !.total = total]]
         IN  IF (FEq(avail, account.available) \/ FEq(total, account.total))
                 /\ ~FEq(amount, Zero)
             THEN Out(i2, h, Err("AccountAmountTooLarge", 0))
             ELSE Out(i2, (t.tx :> t) @@ h, Ok)

\* the Deposit arm without its overflow guard: the record is always stored
Deposit_NoOverflowGuard(i, h, t, amount) ==
    IF t.tx \in DOMAIN h THEN Out(i, h, Err("InvalidTransaction", t.tx))
    ELSE IF ~HasClient(i, t.client) THEN Out(i, h, Err("UnknownClient", t.client))
    ELSE IF i[t.client].locked THEN Out(i, h, Err("AccountLocked", t.client))
    ELSE LET account == i[t.client]
             avail == FAdd(account.available, amount)
             total == FAdd(account.total, amount)
             i2 == [i EXCEPT ![t.client] =
                        [account EXCEPT !.available = avail, !.total = total]]
         IN  Out(i2, (t.tx :> t) @@ h, Ok)

\* handle_transaction, TransactionKind::Deposit arm
Deposit(i, h, t, amount) ==
    IF t.tx \in DOMAIN h THEN Out(i, h, Err("InvalidTransaction", t.tx))
    ELSE IF ~HasClient(i, t.client) THEN Out(i, h, Err("UnknownClient", t.client))
    ELSE IF i[t.client].locked THEN Out(i, h, Err("AccountLocked", t.client))
    ELSE LET account == i[t.client]
             avail == FAdd(account.available, amount)
             total == FAdd(account.total, amount)
             i2 == [i EXCEPT ![t.client] =
                        [account EXCEPT !.available = avail, !.total = total]]
         IN  IF (FEq(avail, account.available) \/ FEq(total, account.total))
                 /\ ~FEq(amount, Zero)
             THEN Out(i2, h, Err("AccountAmountTooLarge", 0))
             ELSE Out(i2, (t.tx :> t) @@ h, Ok)

\* the Withdrawal arm debiting available only
Withdrawal_KeepsTotal(i, h, t, amount) ==
    IF t.tx \in DOMAIN h THEN Out(i, h, Err("InvalidTransaction", t.tx))
    ELSE IF ~HasClient(i, t.client) THEN Out(i, h, Err("UnknownClient", t.client))
    ELSE IF i[t.client].locked THEN Out(i, h, Err("AccountLocked", t.client))
    ELSE IF FGt(amount, i[t.client].available)
         THEN Out(i, h, Err("InvalidAmount", amount))
    ELSE LET account == i[t.client]
             i2 == [i EXCEPT ![t.client] =
                        [account EXCEPT !.available = FSub(account.available, amount)]]
         IN  Out(i2, (t.tx :> t) @@ h, Ok)

\* the Withdrawal arm without its account.locked check
Withdrawal_NoLockedCheck(i, h, t, amount) ==
    IF t.tx \in DOMAIN h THEN Out(i, h, Err("InvalidTransaction", t.tx))
    ELSE IF ~HasClient(i, t.client) THEN Out(i, h, Err("UnknownClient", t.client))
    ELSE IF FGt(amount, i[t.client].available)
         THEN Out(i, h, Err("InvalidAmount", amount))
    ELSE LET account == i[t.client]
             i2 == [i EXCEPT ![t.client] =
                        [account EXCEPT !.available = FSub(account.available, amount),
                                        !.total = FSub(account.total, amount)]]
         IN  Out(i2, (t.tx :> t) @@ h, Ok)

\* the Withdrawal arm without its amount > account.available check
Withdrawal_NoFundsCheck(i, h, t, amount) ==
    IF t.tx \in DOMAIN h THEN Out(i, h, Err("InvalidTransaction", t.tx))
    ELSE IF ~HasClient(i, t.client) THEN Out(i, h, Err("UnknownClient", t.client))
    ELSE IF i[t.client].locked THEN Out(i, h, Err("AccountLocked", t.client))
    ELSE LET account == i[t.client]
             i2 == [i EXCEPT ![t.client] =
                        [account EXCEPT !.available = FSub(account.available, amount),
                                        !.total = FSub(account.total, amount)]]
         IN  Out(i2, (t.tx :> t) @@ h, Ok)

\* handle_transaction, TransactionKind::Withdrawal arm
Withdrawal(i, h, t, amount) ==
    IF t.tx \in DOMAIN h THEN Out(i, h, Err("InvalidTransaction", t.tx))
    ELSE IF ~HasClient(i, t.client) THEN Out(i, h, Err("UnknownClient", t.client))
    ELSE IF i[t.client].locked THEN Out(i, h, Err("AccountLocked", t.client))
    ELSE IF FGt(amount, i[t.client].available)
         THEN Out(i, h, Err("InvalidAmount", amount))
    ELSE LET account == i[t.client]
             i2 == [i EXCEPT ![t.client] =
                        [account EXCEPT !.available = FSub(account.available, amount),
                                        !.total = FSub(account.total, amount)]]
         IN  Out(i2, (t.tx :> t) @@ h, Ok)

\* the Dispute arm charging the client of the stored entry instead of the
\* client of the incoming record
Dispute_OnStoredClient(i, h, t, amount) ==
    IF t.tx \notin DOMAIN h THEN Out(i, h, Err("UnknownTransaction", t.tx))
    ELSE LET m == get_amount(h[t.tx]) IN
         IF ~m.ok THEN Out(i, h, Err("InvalidAmount", m.v))
         ELSE IF ~HasClient(i, h[t.tx].client) THEN Out(i, h, Err("UnknownClient", t.client))
         ELSE LET account == i[h[t.tx].client]
                  i2 == [i EXCEPT ![h[t.tx].client] =
                             [account EXCEPT !.available = FSub(account.available, m.v),
                                             !.held = FAdd(account.held, m.v)]]
              IN  Out(i2, [h EXCEPT ![t.tx].under_dispute = TRUE], Ok)

\* the Dispute arm taking the amount out of total instead of available
Dispute_FromTotal(i, h, t, amount) ==
    IF t.tx \notin DOMAIN h THEN Out(i, h, Err("UnknownTransaction", t.tx))
    ELSE LET m == get_amount(h[t.tx]) IN
         IF ~m.ok THEN Out(i, h, Err("InvalidAmount", m.v))
         ELSE IF ~HasClient(i, t.client) THEN Out(i, h, Err("UnknownClient", t.client))
         ELSE LET account == i[t.client]
                  i2 == [i EXCEPT ![t.client] =
                             [account EXCEPT !.total = FSub(account.total, m.v),
                                             !.held = FAdd(account.held, m.v)]]
              IN  Out(i2, [h EXCEPT ![t.tx].under_dispute = TRUE], Ok)

\* the Dispute arm moving the incoming record's amount instead of the stored one
Dispute_UsesRecordAmount(i, h, t, amount) ==
    IF t.tx \notin DOMAIN h THEN Out(i, h, Err("UnknownTransaction", t.tx))
    ELSE IF ~HasClient(i, t.client) THEN Out(i, h, Err("UnknownClient", t.client))
    ELSE LET account == i[t.client]
             i2 == [i EXCEPT ![t.client] =
                        [account EXCEPT !.available = FSub(account.available, amount),
                                        !.held = FAdd(account.held, amount)]]
         IN  Out(i2, [h EXCEPT ![t.tx].under_dispute = TRUE], Ok)

\* the Dispute arm with the account.locked check of the Deposit arm
Dispute_LockedCheck(i, h, t, amount) ==
    IF t.tx \notin DOMAIN h THEN Out(i, h, Err("UnknownTransaction", t.tx))
    ELSE LET m == get_amount(h[t.tx]) IN
         IF ~m.ok THEN Out(i, h, Err("InvalidAmount", m.v))
         ELSE IF ~HasClient(i, t.client) THEN Out(i, h, Err("UnknownClient", t.client))
         ELSE IF i[t.client].locked THEN Out(i, h, Err("AccountLocked", t.client))
         ELSE LET account == i[t.client]
                  i2 == [i EXCEPT ![t.client] =
                             [account EXCEPT !.available = FSub(account.available, m.v),
                                             !.held = FAdd(account.held, m.v)]]
              IN  Out(i2, [h EXCEPT ![t.tx].under_dispute = TRUE], Ok)

\* the Dispute arm keeping the incoming record in place of the stored entry
Dispute_StoresRecord(i, h, t, amount) ==
    IF t.tx \notin DOMAIN h THEN Out(i, h, Err("UnknownTransaction", t.tx))
    ELSE LET m == get_amount(h[t.tx]) IN
         IF ~m.ok THEN Out(i, h, Err("InvalidAmount", m.v))
         ELSE IF ~HasClient(i, t.client) THEN Out(i, h, Err("UnknownClient", t.client))
         ELSE LET account == i[t.client]
                  i2 == [i EXCEPT ![t.client] =
                             [account EXCEPT !.available = FSub(account.available, m.v),
                                             !.held = FAdd(account.held, m.v)]]
              IN  Out(i2, [h EXCEPT ![t.tx] = [t EXCEPT !.under_dispute = TRUE]], Ok)

\* handle_transaction, TransactionKind::Dispute arm
Dispute(i, h, t, amount) ==
    IF t.tx \notin DOMAIN h THEN Out(i, h, Err("UnknownTransaction", t.tx))
    ELSE LET m == get_amount(h[t.tx]) IN
         IF ~m.ok THEN Out(i, h, Err("InvalidAmount", m.v))
         ELSE IF ~HasClient(i, t.client) THEN Out(i, h, Err("UnknownClient", t.client))
         ELSE LET account == i[t.client]
                  i2 == [i EXCEPT ![t.client] =
                             [account EXCEPT !.available = FSub(account.available, m.v),
                                             !.held = FAdd(account.held, m.v)]]
              IN  Out(i2, [h EXCEPT ![t.tx].under_dispute = TRUE], Ok)

\* the Resolve arm without its under_dispute check
Resolve_NoDisputeCheck(i, h, t, amount) ==
    IF t.tx \notin DOMAIN h THEN Out(i, h, Err("UnknownTransaction", t.tx))
    ELSE LET m == get_amount(h[t.tx]) IN
         IF ~m.ok THEN Out(i, h, Err("InvalidAmount", m.v))
         ELSE IF ~HasClient(i, t.client) THEN Out(i, h, Err("UnknownClient", t.client))
         ELSE LET account == i[t.client]
                  i2 == [i EXCEPT ![t.client] =
                             [account EXCEPT !.held = FSub(account.held, m.v),
                                             !.available = FAdd(account.available, m.v)]]
              IN  Out(i2, h, Ok)

\* the Resolve arm answering TxNonDisputed for a tx that is not in history
Resolve_UnknownAsNonDisputed(i, h, t, amount) ==
    IF t.tx \notin DOMAIN h THEN Out(i, h, Err("TxNonDisputed", t.tx))
    ELSE IF ~h[t.tx].under_dispute THEN Out(i, h, Err("TxNonDisputed", t.tx))
    ELSE LET m == get_amount(h[t.tx]) IN
         IF ~m.ok THEN Out(i, h, Err("InvalidAmount", m.v))
         ELSE IF ~HasClient(i, t.client) THEN Out(i, h, Err("UnknownClient", t.client))
         ELSE LET account == i[t.client]
                  i2 == [i EXCEPT ![t.client] =
                             [account EXCEPT !.held = FSub(account.held, m.v),
                                             !.available = FAdd(account.available, m.v)]]
              IN  Out(i2, h, Ok)

\* the Resolve arm that also unlocks the account
Resolve_Unlocks(i, h, t, amount) ==
    IF t.tx \notin DOMAIN h THEN Out(i, h, Err("UnknownTransaction", t.tx))
    ELSE IF ~h[t.tx].under_dispute THEN Out(i, h, Err("TxNonDisputed", t.tx))
    ELSE LET m == get_amount(h[t.tx]) IN
         IF ~m.ok THEN Out(i, h, Err("InvalidAmount", m.v))
         ELSE IF ~HasClient(i, t.client) THEN Out(i, h, Err("UnknownClient", t.client))
         ELSE LET account == i[t.client]
                  i2 == [i EXCEPT ![t.client] =
                             [account EXCEPT !.held = FSub(account.held, m.v),
                                             !.available = FAdd(account.available, m.v),
                                             !.locked = FALSE]]
              IN  Out(i2, h, Ok)

\* handle_transaction, TransactionKind::Resolve arm
Resolve(i, h, t, amount) ==
    IF t.tx \notin DOMAIN h THEN Out(i, h, Err("UnknownTransaction", t.tx))
    ELSE IF ~h[t.tx].under_dispute THEN Out(i, h, Err("TxNonDisputed", t.tx))
    ELSE LET m == get_amount(h[t.tx]) IN
         IF ~m.ok THEN Out(i, h, Err("InvalidAmount", m.v))
         ELSE IF ~HasClient(i, t.client) THEN Out(i, h, Err("UnknownClient", t.client))
         ELSE LET account == i[t.client]
                  i2 == [i EXCEPT ![t.client] =
                             [account EXCEPT !.held = FSub(account.held, m.v),
                                             !.available = FAdd(account.available, m.v)]]
              IN  Out(i2, h, Ok)

\* the Chargeback arm that forgets to take the amount out of total
Chargeback_KeepsTotal(i, h, t, amount) ==
    IF t.tx \notin DOMAIN h THEN Out(i, h, Err("UnknownTransaction", t.tx))
    ELSE IF ~h[t.tx].under_dispute THEN Out(i, h, Err("TxNonDisputed", t.tx))
    ELSE LET m == get_amount(h[t.tx]) IN
         IF ~m.ok THEN Out(i, h, Err("InvalidAmount", m.v))
         ELSE IF ~HasClient(i, t.client) THEN Out(i, h, Err("UnknownClient", t.client))
         ELSE LET account == i[t.client]
                  i2 == [i EXCEPT ![t.client] =
                             [account EXCEPT !.held = FSub(account.held, m.v),
                                             !.locked = TRUE]]
              IN  Out(i2, h, Ok)

\* the Chargeback arm that forgets to lock the account
Chargeback_NoLock(i, h, t, amount) ==
    IF t.tx \notin DOMAIN h THEN Out(i, h, Err("UnknownTransaction", t.tx))
    ELSE IF ~h[t.tx].under_dispute THEN Out(i, h, Err("TxNonDisputed", t.tx))
    ELSE LET m == get_amount(h[t.tx]) IN
         IF ~m.ok THEN Out(i, h, Err("InvalidAmount", m.v))
         ELSE IF ~HasClient(i, t.client) THEN Out(i, h, Err("UnknownClient", t.client))
         ELSE LET account == i[t.client]
                  i2 == [i EXCEPT ![t.client] =
                             [account EXCEPT !.held = FSub(account.held, m.v),
                                             !.total = FSub(account.total, m.v)]]
              IN  Out(i2, h, Ok)

\* handle_transaction, TransactionKind::Chargeback arm
Chargeback(i, h, t, amount) ==
    IF t.tx \notin DOMAIN h THEN Out(i, h, Err("UnknownTransaction", t.tx))
    ELSE IF ~h[t.tx].under_dispute THEN Out(i, h, Err("TxNonDisputed", t.tx))
    ELSE LET m == get_amount(h[t.tx]) IN
         IF ~m.ok THEN Out(i, h, Err("InvalidAmount", m.v))
         ELSE IF ~HasClient(i, t.client) THEN Out(i, h, Err("UnknownClient", t.client))
         ELSE LET account == i[t.client]
                  i2 == [i EXCEPT ![t.client] =
                             [account EXCEPT !.held = FSub(account.held, m.v),
                                             !.total = FSub(account.total, m.v),
                                             !.locked = TRUE]]
              IN  Out(i2, h, Ok)

\* the entry lookup without the or_insert_with
EntryOrInsert_NoInsert(i, client) == i

\* self.inner.entry(client).or_insert_with(|| Account::new())
EntryOrInsert(i, client) ==
    IF client \in DOMAIN i THEN i ELSE (client :> AccountNew) @@ i

\* Accounts::handle_transaction on the maps (i, h): the maps it leaves and its result
handle_transaction(i, h, t) ==
    LET i1 == EntryOrInsert(i, t.client)
        a  == get_amount(t)
    IN  IF ~a.ok THEN Out(i1, h, Err("InvalidAmount", a.v))
        ELSE CASE t.kind = "Deposit"    -> Deposit(i1, h, t, a.v)
               [] t.kind = "Withdrawal" -> Withdrawal(i1, h, t, a.v)
               [] t.kind = "Dispute"    -> Dispute(i1, h, t, a.v)
               [] t.kind = "Resolve"    -> Resolve(i1, h, t, a.v)
               [] t.kind = "Chargeback" -> Chargeback(i1, h, t, a.v)

---------------------------------------------------------------------------
(* The records a caller can pass *)
Clients == 1..MaxClient
TxIds   == 1..MaxTx

\* amount fields: absent, NaN, negative, zero, and the valid finite amounts
Amounts ==
    {None, Some(NaN), Some(Fin(-1)), Some(Zero)} \cup {Some(Fin(n)) : n \in 1..MaxAmount}

\* the account of a client in the map i, as the or_insert_with of a call finds or makes it
AccountOf(i, client) == EntryOrInsert(i, client)[client]

NoDispute ==
    [tx |-> 0, client |-> 0, account |-> AccountNew, set |-> FALSE, was_disputed |-> FALSE]

\* what the next state remembers of the call that has just ended
Remember ==
    IF req.kind = "Dispute" /\ res.kind = "Ok"
    THEN [tx |-> req.tx, client |-> req.client,
          account |-> AccountOf(pre.inner, req.client),
          set |-> TRUE, was_disputed |-> pre.tx[req.tx].under_dispute]
    ELSE NoDispute

\* the value of an amount field as a number, 0 when absent
AmountValue(a) == IF IsSome(a) THEN Unwrap(a) ELSE Zero

\* what the call of record t, made with the history h and returning r, counts
\* for in the sum of its client: the record's amount for an Ok Deposit, its
\* opposite for an Ok Withdrawal, the opposite of the stored amount for an Ok
\* Chargeback, nothing otherwise
Applied(t, h, r) ==
    IF r.kind # "Ok" THEN Zero
    ELSE CASE t.kind = "Deposit" -> AmountValue(t.amount)
           [] t.kind = "Withdrawal" -> FNeg(AmountValue(t.amount))
           [] t.kind = "Chargeback" -> FNeg(AmountValue(h[t.tx].amount))
           [] OTHER -> Zero

\* let mut accounts = Accounts::new(), no call made yet
InitAccounts ==
    /\ inner = AccountsNew.inner
    /\ tx = AccountsNew.tx
    /\ req = Transaction("NoCall", 0, 0, None)
    /\ prev = NoDispute
    /\ res = [kind |-> "NoCall", arg |-> 0]
    /\ pre = AccountsNew
    /\ calls = 0
    /\ net = [c \in Clients |-> Zero]

\* Accounts used as a library, as the unit tests do: app_main is not running
Init ==
    /\ InitAccounts
    /\ input = <<>>
    /\ pos = 0
    /\ pc = "start"
    /\ exports = 0
    /\ failures = 0

\* the effect of one call accounts.handle_transaction(t) on the ledger
Handle(t) ==
    LET out == handle_transaction(inner, tx, t) IN
    /\ calls < MaxCalls
    /\ calls' = calls + 1
    /\ inner' = out.inner
    /\ tx' = out.tx
    /\ req' = t
    /\ res' = out.res
    /\ pre' = [inner |-> inner, tx |-> tx]
    /\ prev' = Remember
    /\ net' = [net EXCEPT ![t.client] = FAdd(@, Applied(t, tx, out.res))]

\* one call accounts.handle_transaction(t) made outside app_main
Call(t) == Handle(t) /\ UNCHANGED appVars

CallDeposit    == \E c \in Clients, id \in TxIds, a \in Amounts : Call(Transaction("Deposit", c, id, a))
CallWithdrawal == \E c \in Clients, id \in TxIds, a \in Amounts : Call(Transaction("Withdrawal", c, id, a))
CallDispute    == \E c \in Clients, id \in TxIds, a \in Amounts : Call(Transaction("Dispute", c, id, a))
CallResolve    == \E c \in Clients, id \in TxIds, a \in Amounts : Call(Transaction("Resolve", c, id, a))
CallChargeback == \E c \in Clients, id \in TxIds, a \in Amounts : Call(Transaction("Chargeback", c, id, a))

Next == CallDeposit \/ CallWithdrawal \/ CallDispute \/ CallResolve \/ CallChargeback

Spec == Init /\ [][Next]_vars

---------------------------------------------------------------------------
(* Amounts at the edge of the f64 range *)

\* amount fields of the records: absent, 1, f64::MAX, +inf
AmountsF64 == {None, Some(Fin(1)), Some(Fin(F64Max)), Some(Inf)}

DepositF64    == \E c \in Clients, id \in TxIds, a \in AmountsF64 : Call(Transaction("Deposit", c, id, a))
WithdrawalF64 == \E c \in Clients, id \in TxIds, a \in AmountsF64 : Call(Transaction("Withdrawal", c, id, a))
DisputeF64    == \E c \in Clients, id \in TxIds, a \in AmountsF64 : Call(Transaction("Dispute", c, id, a))
ResolveF64    == \E c \in Clients, id \in TxIds, a \in AmountsF64 : Call(Transaction("Resolve", c, id, a))
ChargebackF64 == \E c \in Clients, id \in TxIds, a \in AmountsF64 : Call(Transaction("Chargeback", c, id, a))

NextF64 == DepositF64 \/ WithdrawalF64 \/ DisputeF64 \/ ResolveF64 \/ ChargebackF64

SpecF64 == Init /\ [][NextF64]_vars

---------------------------------------------------------------------------
(* app_main of src/src/main.rs *)

MaxStream == 3      \* length of the longest input stream explored

\* an item of the CsvReader iterator: Ok(transaction) or Err(csv::Error)
RowOk(t) == [t |-> t, ok |-> TRUE]
RowErr   == [t |-> Transaction("NoCall", 0, 0, None), ok |-> FALSE]

\* the rows of the input files explored: every kind, on client 1 and tx 1,
\* without amount or with the amount 1, and a row that does not deserialize
Rows ==
    {RowErr} \cup
    {RowOk(Transaction(k, 1, 1, a)) : k \in TransactionKind, a \in {None, Some(Fin(1))}}

Streams == UNION {[1..n -> Rows] : n \in 0..MaxStream}

InitApp ==
    /\ InitAccounts
    /\ input \in Streams
    /\ pos = 0
    /\ pc = "start"
    /\ exports = 0
    /\ failures = 0

\* CsvReader::new(csv_path_)? succeeds
OpenCsv ==
    /\ pc = "start"
    /\ pc' = "loop"
    /\ UNCHANGED <<ledgerVars, input, pos, exports, failures>>

\* CsvReader::new(csv_path_)? returns AppError::IO
OpenCsvFails ==
    /\ pc = "start"
    /\ pc' = "IO"
    /\ UNCHANGED <<ledgerVars, input, pos, exports, failures>>

\* app_main ignoring the result of handle_transaction and going on
AfterHandle_Continue(r) == "loop"

\* where app_main goes after accounts.handle_transaction(transaction)?
AfterHandle(r) == IF r.kind = "Ok" THEN "loop" ELSE "Transaction"

\* the iterator yields Some(Ok(transaction)): it is handed to handle_transaction
NextTransaction ==
    /\ pc = "loop" /\ pos < Len(input) /\ input[pos + 1].ok
    /\ Handle(input[pos + 1].t)
    /\ pos' = pos + 1
    /\ pc' = AfterHandle(res')
    /\ failures' = IF res'.kind = "Ok" THEN failures ELSE failures + 1
    /\ UNCHANGED <<input, exports>>

\* the iterator yields Some(Err(e)): transaction_? returns AppError::Csv
NextMalformed ==
    /\ pc = "loop" /\ pos < Len(input) /\ ~input[pos + 1].ok
    /\ pos' = pos + 1
    /\ pc' = "Csv"
    /\ failures' = failures + 1
    /\ UNCHANGED <<ledgerVars, input, exports>>

\* the iterator yields None: accounts.output_as_csv(Some(&mut stdout))? succeeds
Export ==
    /\ pc = "loop" /\ pos = Len(input)
    /\ exports' = exports + 1
    /\ pc' = "Ok"
    /\ UNCHANGED <<ledgerVars, input, pos, failures>>

\* the iterator yields None: output_as_csv fails to write, AppError::Csv
ExportFails ==
    /\ pc = "loop" /\ pos = Len(input)
    /\ exports' = exports + 1
    /\ pc' = "Csv"
    /\ UNCHANGED <<ledgerVars, input, pos, failures>>

NextApp ==
    \/ OpenCsv \/ OpenCsvFails
    \/ NextTransaction \/ NextMalformed
    \/ Export \/ ExportFails

SpecApp == InitApp /\ [][NextApp]_vars

---------------------------------------------------------------------------
(* Vocabulary of the properties *)

\* a call has been made: req, res and pre describe it
Called == res.kind # "NoCall"

IsDepositOrWithdrawal == Called /\ req.kind \in {"Deposit", "Withdrawal"}

\* the amount field is absent, or present and > 0
AmountAccepted == ~IsSome(req.amount) \/ FGt(Unwrap(req.amount), Zero)

\* the amount field is present and is <= 0 or NaN
AmountIsBad ==
    /\ IsSome(req.amount)
    /\ \/ IsNaN(Unwrap(req.amount))
       \/ IsFinite(Unwrap(req.amount)) /\ Unwrap(req.amount).v <= 0

\* the amount a history entry stands for: its amount field, 0 when it has none
StoredAmount(e) == IF IsSome(e.amount) THEN Unwrap(e.amount) ELSE Zero

\* the account of the record's client when the call started (zero-initialized
\* when the call created it) and when it returned
Before == IF req.client \in DOMAIN pre.inner THEN pre.inner[req.client] ELSE AccountNew
After  == inner[req.client]

FiniteAccount(a) == IsFinite(a.available) /\ IsFinite(a.held) /\ IsFinite(a.total)

\* the call changed no balance and no locked flag: every account that existed
\* is as it was, and an account the call created is zero-initialized
BalancesUnchanged ==
    /\ DOMAIN pre.inner \subseteq DOMAIN inner
    /\ \A c \in DOMAIN pre.inner : inner[c] = pre.inner[c]
    /\ \A c \in DOMAIN inner \ DOMAIN pre.inner : inner[c] = AccountNew

HistoryUnchanged == tx = pre.tx

---------------------------------------------------------------------------
\* C1: after every call that returns Ok, every account has
\* total == available + held (exact finite amounts).
C1_TotalIsAvailablePlusHeld ==
    (Called /\ res.kind = "Ok") =>
        \A c \in DOMAIN inner :
            /\ FiniteAccount(inner[c])
            /\ inner[c].total.v = inner[c].available.v + inner[c].held.v

\* a Chargeback has returned Ok and took the client's total from 1 to 0
C1_Witness ==
    /\ Called /\ res.kind = "Ok" /\ req.kind = "Chargeback"
    /\ Before.total = Fin(1) /\ After.total = Zero

\* C2 as stated: a Deposit or Withdrawal whose tx is already in history is
\* rejected with InvalidTransaction whatever its client, amount and the locked
\* state of its account, and changes no balance and no history entry.
C2_AsStated ==
    (IsDepositOrWithdrawal /\ req.tx \in DOMAIN pre.tx) =>
        /\ res.kind = "InvalidTransaction" /\ res.arg = req.tx
        /\ BalancesUnchanged /\ HistoryUnchanged

\* C2 amended: a Deposit or Withdrawal whose tx is already in history is
\* always rejected and changes no balance and no history entry, whatever its
\* client and the locked state of its account; the error is
\* InvalidTransaction(tx) when its amount is absent or > 0, and InvalidAmount
\* when its amount is present and <= 0 or NaN (the amount is checked first).
C2_DuplicateRejected ==
    (IsDepositOrWithdrawal /\ req.tx \in DOMAIN pre.tx) =>
        /\ AmountAccepted => (res.kind = "InvalidTransaction" /\ res.arg = req.tx)
        /\ ~AmountAccepted => (res.kind = "InvalidAmount" /\ res.arg = Unwrap(req.amount))
        /\ BalancesUnchanged /\ HistoryUnchanged

\* a Withdrawal reusing a tx stored by another client, on a locked account,
\* has been rejected with InvalidTransaction
C2_Witness ==
    /\ IsDepositOrWithdrawal /\ req.kind = "Withdrawal"
    /\ req.tx \in DOMAIN pre.tx /\ pre.tx[req.tx].client # req.client
    /\ Before.locked
    /\ res.kind = "InvalidTransaction"

\* C3: a Dispute carrying no amount that references a stored tx T succeeds;
\* for the account of the record's client available decreases by the stored
\* amount of T, held increases by it, total and locked are unchanged; and T's
\* entry is under dispute afterwards.
C3_DisputeMovesStoredAmount ==
    (Called /\ req.kind = "Dispute" /\ ~IsSome(req.amount) /\ req.tx \in DOMAIN pre.tx) =>
        /\ res.kind = "Ok"
        /\ FiniteAccount(After)
        /\ After.available.v = Before.available.v - StoredAmount(pre.tx[req.tx]).v
        /\ After.held.v = Before.held.v + StoredAmount(pre.tx[req.tx]).v
        /\ After.total = Before.total
        /\ After.locked = Before.locked
        /\ tx[req.tx].under_dispute = TRUE

\* a Dispute of a stored tx of amount 1 has returned Ok
C3_Witness ==
    /\ Called /\ req.kind = "Dispute" /\ ~IsSome(req.amount)
    /\ req.tx \in DOMAIN pre.tx /\ StoredAmount(pre.tx[req.tx]) = Fin(1)
    /\ res.kind = "Ok"

\* the last two calls were a successful Dispute of a tx that was not under
\* dispute, then a successful Resolve of the same tx for the same client
DisputeThenResolve ==
    /\ Called /\ req.kind = "Resolve" /\ res.kind = "Ok"
    /\ prev.set /\ ~prev.was_disputed
    /\ prev.client = req.client /\ prev.tx = req.tx

\* C4: a successful Dispute of a stored tx T that is not under dispute,
\* immediately followed by a successful Resolve of T for the same client,
\* restores available, held, total and locked of that account to their
\* values before the Dispute.
C4_DisputeResolveRoundTrip ==
    DisputeThenResolve =>
        /\ After.available = prev.account.available
        /\ After.held = prev.account.held
        /\ After.total = prev.account.total
        /\ After.locked = prev.account.locked

\* C5: after a successful Resolve of tx T the history entry of T has
\* under_dispute == false (so that a further Resolve or Chargeback of T with
\* no Dispute in between fails with TxNonDisputed).
C5_ResolveClearsUnderDispute ==
    (Called /\ req.kind = "Resolve" /\ res.kind = "Ok") =>
        tx[req.tx].under_dispute = FALSE

\* C6: a Resolve or Chargeback carrying no amount that references a stored tx
\* whose entry is not under dispute fails with TxNonDisputed(tx), and every
\* account and every history entry is as before the call.
C6_NotDisputedRejected ==
    (/\ Called /\ req.kind \in {"Resolve", "Chargeback"} /\ ~IsSome(req.amount)
     /\ req.tx \in DOMAIN pre.tx /\ ~pre.tx[req.tx].under_dispute) =>
        /\ res.kind = "TxNonDisputed" /\ res.arg = req.tx
        /\ BalancesUnchanged /\ HistoryUnchanged

\* a Resolve of a stored, never disputed tx of amount 1 has been rejected
C6_Witness ==
    /\ Called /\ req.kind = "Resolve" /\ ~IsSome(req.amount)
    /\ req.tx \in DOMAIN pre.tx /\ ~pre.tx[req.tx].under_dispute
    /\ StoredAmount(pre.tx[req.tx]) = Fin(1)
    /\ res.kind = "TxNonDisputed"

\* C7: a Chargeback carrying no amount that references a stored tx T under
\* dispute succeeds; for the account of the record's client held and total
\* decrease by the stored amount of T, available is unchanged and locked
\* becomes true.
C7_ChargebackRemovesAndLocks ==
    (/\ Called /\ req.kind = "Chargeback" /\ ~IsSome(req.amount)
     /\ req.tx \in DOMAIN pre.tx /\ pre.tx[req.tx].under_dispute) =>
        /\ res.kind = "Ok"
        /\ FiniteAccount(After)
        /\ After.held.v = Before.held.v - StoredAmount(pre.tx[req.tx]).v
        /\ After.total.v = Before.total.v - StoredAmount(pre.tx[req.tx]).v
        /\ After.available = Before.available
        /\ After.locked = TRUE

\* a Chargeback of a disputed tx of amount 1 has returned Ok on an account
\* that was not locked
C7_Witness ==
    /\ Called /\ req.kind = "Chargeback" /\ ~IsSome(req.amount)
    /\ req.tx \in DOMAIN pre.tx /\ pre.tx[req.tx].under_dispute
    /\ StoredAmount(pre.tx[req.tx]) = Fin(1)
    /\ ~Before.locked /\ res.kind = "Ok"

\* C8 as stated: on a locked account every Deposit and every Withdrawal fails
\* with AccountLocked(client), regardless of the record's tx and amount, and
\* leaves the balances and the history unchanged.
C8_AsStated ==
    (IsDepositOrWithdrawal /\ Before.locked) =>
        /\ res.kind = "AccountLocked" /\ res.arg = req.client
        /\ BalancesUnchanged /\ HistoryUnchanged

\* C8 amended: on a locked account every Deposit and every Withdrawal fails
\* and leaves the balances and the history unchanged, regardless of the
\* record's tx and amount; the error is AccountLocked(client) when the amount
\* is absent or > 0 and the tx is not in history, InvalidAmount when the
\* amount is present and <= 0 or NaN, and InvalidTransaction(tx) when the
\* amount is absent or > 0 and the tx is already in history.
C8_LockedRejects ==
    (IsDepositOrWithdrawal /\ Before.locked) =>
        /\ res.kind # "Ok"
        /\ BalancesUnchanged /\ HistoryUnchanged
        /\ (AmountAccepted /\ req.tx \notin DOMAIN pre.tx) =>
               (res.kind = "AccountLocked" /\ res.arg = req.client)
        /\ ~AmountAccepted => res.kind = "InvalidAmount"
        /\ (AmountAccepted /\ req.tx \in DOMAIN pre.tx) =>
               (res.kind = "InvalidTransaction" /\ res.arg = req.tx)

\* a Withdrawal of a valid amount with a fresh tx has been rejected with
\* AccountLocked on a locked account
C8_Witness ==
    /\ IsDepositOrWithdrawal /\ req.kind = "Withdrawal" /\ Before.locked
    /\ IsSome(req.amount) /\ AmountAccepted /\ req.tx \notin DOMAIN pre.tx
    /\ res.kind = "AccountLocked"

\* C9: a Deposit or Withdrawal whose amount is present and is <= 0 or NaN
\* fails with InvalidAmount; the account and the history are unchanged, so
\* the tx is not stored by the call.
C9_BadAmountRejected ==
    (IsDepositOrWithdrawal /\ AmountIsBad) =>
        /\ res.kind = "InvalidAmount" /\ res.arg = Unwrap(req.amount)
        /\ BalancesUnchanged /\ HistoryUnchanged
        /\ req.tx \notin DOMAIN pre.tx => req.tx \notin DOMAIN tx

\* a Deposit of amount 0 with a fresh tx has been rejected on an account
\* holding funds
C9_Witness ==
    /\ IsDepositOrWithdrawal /\ req.kind = "Deposit"
    /\ req.amount = Some(Zero) /\ req.tx \notin DOMAIN pre.tx
    /\ Before.total = Fin(1)
    /\ res.kind = "InvalidAmount"

\* C10: a Deposit or Withdrawal whose amount field is absent fails with
\* InvalidAmount: it never returns Ok and is never stored in history.
C10_MissingAmountRejected ==
    (IsDepositOrWithdrawal /\ ~IsSome(req.amount)) =>
        /\ res.kind = "InvalidAmount"
        /\ HistoryUnchanged

---------------------------------------------------------------------------
\* the amount get_amount reads from the record: its amount field, 0.0 when absent
ReqAmount == IF IsSome(req.amount) THEN Unwrap(req.amount) ELSE Zero

\* a Withdrawal with a fresh tx and an accepted amount greater than the
\* available funds of its unlocked account
IsOverdraw ==
    /\ Called /\ req.kind = "Withdrawal"
    /\ ~Before.locked /\ req.tx \notin DOMAIN pre.tx
    /\ AmountAccepted /\ FGt(ReqAmount, Before.available)

\* C11 as stated: a Withdrawal on an unlocked account with a fresh tx and a
\* valid amount strictly greater than available fails with an error kind
\* InsufficientFunds of its own, and leaves the account and the history
\* unchanged.
C11_AsStated ==
    IsOverdraw =>
        /\ res.kind = "InsufficientFunds"
        /\ BalancesUnchanged /\ HistoryUnchanged

\* C11 amended: such a Withdrawal fails with InvalidAmount carrying the
\* amount, the same error kind as a malformed amount (the code has no
\* InsufficientFunds kind), and leaves the account and the history unchanged.
C11_OverdrawRejected ==
    IsOverdraw =>
        /\ res.kind = "InvalidAmount" /\ res.arg = ReqAmount
        /\ BalancesUnchanged /\ HistoryUnchanged

\* a Withdrawal of 1 from an unlocked account whose funds are all held has
\* been rejected
C11_Witness ==
    /\ IsOverdraw /\ req.amount = Some(Fin(1))
    /\ Before.available = Zero /\ Before.held = Fin(1)
    /\ res.kind = "InvalidAmount"

DisputeKinds == {"Dispute", "Resolve", "Chargeback"}

IsDisputeKind == Called /\ req.kind \in DisputeKinds

\* C12 as stated: a Dispute, Resolve or Chargeback whose tx is not in history
\* fails with UnknownTransaction(tx) whatever its client and amount field,
\* and changes no account and no history entry.
C12_AsStated ==
    (IsDisputeKind /\ req.tx \notin DOMAIN pre.tx) =>
        /\ res.kind = "UnknownTransaction" /\ res.arg = req.tx
        /\ BalancesUnchanged /\ HistoryUnchanged

\* C12 amended: a Dispute, Resolve or Chargeback whose tx is not in history
\* always fails and changes no account and no history entry, whatever its
\* client; the error is UnknownTransaction(tx) when its amount is absent or
\* > 0, and InvalidAmount when its amount is present and <= 0 or NaN.
C12_UnknownTxRejected ==
    (IsDisputeKind /\ req.tx \notin DOMAIN pre.tx) =>
        /\ AmountAccepted => (res.kind = "UnknownTransaction" /\ res.arg = req.tx)
        /\ ~AmountAccepted => (res.kind = "InvalidAmount" /\ res.arg = Unwrap(req.amount))
        /\ BalancesUnchanged /\ HistoryUnchanged

\* a Resolve of a tx that is not in history, while another tx is under
\* dispute, has been rejected with UnknownTransaction
C12_Witness ==
    /\ IsDisputeKind /\ req.kind = "Resolve" /\ req.tx \notin DOMAIN pre.tx
    /\ \E id \in DOMAIN pre.tx : pre.tx[id].under_dispute
    /\ res.kind = "UnknownTransaction"

\* the call that has just ended, made again from the same maps with the
\* amount field a, ends with the same result and the same maps
SameOutcomeWith(a) ==
    LET o == handle_transaction(pre.inner, pre.tx, [req EXCEPT !.amount = a])
    IN  /\ o.inner = inner /\ o.tx = tx
        /\ o.res.kind = res.kind /\ o.res.arg = res.arg

Accepted(a) == ~IsSome(a) \/ FGt(Unwrap(a), Zero)

\* C13 as stated: the outcome of a Dispute, Resolve or Chargeback does not
\* depend on the record's amount field (absent, zero, negative or positive).
C13_AsStated ==
    IsDisputeKind => \A a \in Amounts : SameOutcomeWith(a)

\* C13 amended: the outcome of a Dispute, Resolve or Chargeback is the same
\* for every amount field that is absent or > 0 (only the stored entry's
\* amount is used); a record whose amount is present and is <= 0 or NaN fails
\* with InvalidAmount and changes nothing.
C13_AmountNotUsed ==
    IsDisputeKind =>
        /\ AmountAccepted => \A a \in Amounts : Accepted(a) => SameOutcomeWith(a)
        /\ ~AmountAccepted =>
               /\ res.kind = "InvalidAmount" /\ res.arg = Unwrap(req.amount)
               /\ BalancesUnchanged /\ HistoryUnchanged

\* a Dispute carrying the amount 1 has returned Ok on an entry stored
\* without amount, and has moved nothing
C13_Witness ==
    /\ IsDisputeKind /\ req.kind = "Dispute" /\ req.amount = Some(Fin(1))
    /\ res.kind = "Ok"
    /\ ~IsSome(pre.tx[req.tx].amount)
    /\ After.held = Before.held

\* C14: after any call, Ok or not, an account for record.client exists; when
\* the call created it and failed, it is zero-initialized; and no account is
\* removed by the call.
C14_AccountCreatedFirst ==
    Called =>
        /\ req.client \in DOMAIN inner
        /\ DOMAIN pre.inner \subseteq DOMAIN inner
        /\ (req.client \notin DOMAIN pre.inner /\ res.kind # "Ok") =>
               inner[req.client] = AccountNew

\* a rejected Dispute has created the zero account of a second client
C14_Witness ==
    /\ Called /\ req.kind = "Dispute" /\ res.kind = "UnknownTransaction"
    /\ req.client \notin DOMAIN pre.inner /\ DOMAIN pre.inner # {}
    /\ inner[req.client] = AccountNew

\* C15: app_main hands the records to handle_transaction in input order and
\* stops at the first item that does not parse or that handle_transaction
\* rejects: at most one item ever fails, nothing is applied after it and
\* output_as_csv is not called; output_as_csv is called at most once, only
\* after every item of the stream has been applied with Ok, and exactly once
\* when app_main returns Ok.
C15_StopsAtFirstError ==
    /\ failures <= 1 /\ exports <= 1
    /\ failures = 1 => (pc \in {"Csv", "Transaction"} /\ exports = 0)
    /\ Called => (calls <= pos /\ req = input[calls].t)
    /\ pc = "loop" => (failures = 0 /\ calls = pos /\ exports = 0)
    /\ pc = "Transaction" => (Called /\ res.kind # "Ok" /\ calls = pos /\ failures = 1)
    /\ pc = "Ok" => (exports = 1 /\ failures = 0)
    /\ exports = 1 =>
           /\ pos = Len(input) /\ calls = Len(input)
           /\ \A k \in 1..Len(input) : input[k].ok
           /\ Called => res.kind = "Ok"

\* app_main has returned AppError::Transaction on the second of three
\* records: the third was not taken and nothing was exported
C15_Witness ==
    /\ pc = "Transaction" /\ res.kind # "Ok"
    /\ calls = 2 /\ pos = 2 /\ Len(input) = 3 /\ input[3].ok
    /\ exports = 0

\* the accounts i with the locked flag of client's account cleared
Unlocked(i, client) == [i EXCEPT ![client].locked = FALSE]

\* the call that has just ended changed the balances of every account as the
\* same call does from the accounts i
SameBalancesAsFrom(i) ==
    LET o == handle_transaction(i, pre.tx, req)
    IN  /\ o.res.kind = res.kind /\ o.res.arg = res.arg
        /\ o.tx = tx
        /\ DOMAIN o.inner = DOMAIN inner
        /\ \A c \in DOMAIN inner :
               /\ o.inner[c].available = inner[c].available
               /\ o.inner[c].held = inner[c].held
               /\ o.inner[c].total = inner[c].total

\* C16: a Dispute, Resolve or Chargeback on a locked account is never
\* rejected with AccountLocked; it succeeds when its own preconditions hold
\* and changes the balances exactly as on an unlocked account.
C16_LockedStillDisputable ==
    (IsDisputeKind /\ Before.locked) =>
        /\ res.kind # "AccountLocked"
        /\ SameBalancesAsFrom(Unlocked(pre.inner, req.client))
        /\ (/\ AmountAccepted
            /\ req.tx \in DOMAIN pre.tx
            /\ (req.kind = "Dispute" \/ pre.tx[req.tx].under_dispute))
               => res.kind = "Ok"

\* a Dispute on a locked account has returned Ok and has moved the stored
\* amount 1 from available to held
C16_Witness ==
    /\ IsDisputeKind /\ req.kind = "Dispute" /\ Before.locked
    /\ res.kind = "Ok"
    /\ StoredAmount(pre.tx[req.tx]) = Fin(1)
    /\ After.held = FAdd(Before.held, Fin(1))
    /\ After.available = FSub(Before.available, Fin(1))

\* C17: a Deposit or Withdrawal whose amount is +inf never succeeds: it fails
\* with InvalidAmount, is not stored in history, and no balance of any
\* account is ever non-finite.
C17_InfiniteAmountRejected ==
    /\ \A c \in DOMAIN inner : FiniteAccount(inner[c])
    /\ (IsDepositOrWithdrawal /\ req.amount = Some(Inf)) =>
           /\ res.kind = "InvalidAmount"
           /\ BalancesUnchanged /\ HistoryUnchanged

\* a Deposit with a fresh tx and a present amount > 0 on an unlocked account,
\* whose addition leaves available or total equal to what it was
IsAbsorbedDeposit ==
    /\ Called /\ req.kind = "Deposit"
    /\ IsSome(req.amount) /\ FGt(ReqAmount, Zero)
    /\ ~Before.locked /\ req.tx \notin DOMAIN pre.tx
    /\ \/ FEq(FAdd(Before.available, ReqAmount), Before.available)
       \/ FEq(FAdd(Before.total, ReqAmount), Before.total)

\* C18: a Deposit of a valid non-zero amount on an unlocked account whose
\* addition leaves available or total equal to its pre-addition value fails
\* with AccountAmountTooLarge and is not stored in history, and the account
\* keeps the post-addition values of available and total.
C18_OverflowGuard ==
    IsAbsorbedDeposit =>
        /\ res.kind = "AccountAmountTooLarge"
        /\ HistoryUnchanged
        /\ After.available = FAdd(Before.available, ReqAmount)
        /\ After.total = FAdd(Before.total, ReqAmount)
        /\ After.held = Before.held /\ After.locked = Before.locked
        /\ \A c \in DOMAIN pre.inner \ {req.client} : inner[c] = pre.inner[c]

\* a Deposit of 1 on an account whose total is f64::MAX, all of it held, has
\* failed with AccountAmountTooLarge and has left available at 1
C18_Witness ==
    /\ IsAbsorbedDeposit /\ req.amount = Some(Fin(1))
    /\ res.kind = "AccountAmountTooLarge"
    /\ Before.total = Fin(F64Max) /\ After.total = Fin(F64Max)
    /\ Before.available = Zero /\ After.available = Fin(1)

StoredKinds == {"Deposit", "Withdrawal"}

\* C19: every history entry is stored under its own tx and is a Deposit or
\* Withdrawal; a call adds at most the entry of its own record, and only when
\* that record is a Deposit or Withdrawal and the call returned Ok; no entry
\* is removed, and the kind, client and amount of an entry never change.
C19_HistoryIntegrity ==
    /\ \A id \in DOMAIN tx : tx[id].tx = id /\ tx[id].kind \in StoredKinds
    /\ Called =>
        /\ \A id \in DOMAIN pre.tx :
               /\ id \in DOMAIN tx
               /\ tx[id].kind = pre.tx[id].kind
               /\ tx[id].client = pre.tx[id].client
               /\ tx[id].amount = pre.tx[id].amount
        /\ \A id \in DOMAIN tx \ DOMAIN pre.tx :
               /\ id = req.tx /\ res.kind = "Ok"
               /\ req.kind \in StoredKinds
               /\ tx[id] = req

\* a Chargeback has returned Ok while the history holds a Deposit and a
\* Withdrawal
C19_Witness ==
    /\ Called /\ req.kind = "Chargeback" /\ res.kind = "Ok"
    /\ \E a, b \in DOMAIN tx : tx[a].kind = "Deposit" /\ tx[b].kind = "Withdrawal"
    /\ tx[req.tx].under_dispute

WasLocked(c) == c \in DOMAIN pre.inner /\ pre.inner[c].locked

\* C20: an account's locked flag is false until a Chargeback for that client
\* returns Ok, and once true it stays true.
C20_LockedOnlyByChargeback ==
    \A c \in DOMAIN inner :
        /\ WasLocked(c) => inner[c].locked
        /\ (inner[c].locked /\ ~WasLocked(c)) =>
               /\ Called /\ req.kind = "Chargeback" /\ res.kind = "Ok"
               /\ req.client = c

\* a Resolve has returned Ok on an account locked by an earlier Chargeback,
\* and the account is still locked
C20_Witness ==
    /\ Called /\ req.kind = "Resolve" /\ res.kind = "Ok"
    /\ Before.locked /\ After.locked

\* every account that existed when the call started has the available, held
\* and total it had
FundsUnchanged ==
    \A c \in DOMAIN pre.inner :
        /\ inner[c].available = pre.inner[c].available
        /\ inner[c].held = pre.inner[c].held
        /\ inner[c].total = pre.inner[c].total

\* C21: a Dispute of a tx whose history entry is already under dispute moves
\* no funds: available, held and total of every account are unchanged.
C21_NoDoubleDispute ==
    (/\ Called /\ req.kind = "Dispute"
     /\ req.tx \in DOMAIN pre.tx /\ pre.tx[req.tx].under_dispute)
        => FundsUnchanged

\* C22: in every reachable state, every account has held >= 0.
C22_HeldNeverNegative ==
    \A c \in DOMAIN inner : ~FGt(Zero, inner[c].held)

\* the history after the call is the history before it, or that with the
\* record inserted under its tx, or that with the flag of its tx set
HistoryFrame ==
    \/ tx = pre.tx
    \/ /\ req.kind \in StoredKinds /\ res.kind = "Ok"
       /\ req.tx \notin DOMAIN pre.tx
       /\ tx = (req.tx :> req) @@ pre.tx
    \/ /\ req.kind = "Dispute" /\ res.kind = "Ok"
       /\ req.tx \in DOMAIN pre.tx
       /\ tx = [pre.tx EXCEPT ![req.tx].under_dispute = TRUE]

\* C23: a call changes the balances and the locked flag of no account but
\* that of the incoming record's client, also when the tx it references was
\* stored under another client, and the only change of the history is the
\* insertion of the entry record.tx (Deposit, Withdrawal) or the setting of
\* the under_dispute flag of the entry record.tx (Dispute).
C23_Frame ==
    Called =>
        /\ DOMAIN inner = DOMAIN pre.inner \cup {req.client}
        /\ \A c \in DOMAIN pre.inner \ {req.client} : inner[c] = pre.inner[c]
        /\ HistoryFrame

\* a Dispute sent by one client for a tx stored by another client has
\* returned Ok: it moved 1 on the sender's account and left the owner's
C23_Witness ==
    /\ Called /\ req.kind = "Dispute" /\ res.kind = "Ok"
    /\ pre.tx[req.tx].client # req.client
    /\ StoredAmount(pre.tx[req.tx]) = Fin(1)
    /\ After.held = FAdd(Before.held, Fin(1))
    /\ inner[pre.tx[req.tx].client].total = Fin(1)
    /\ inner[pre.tx[req.tx].client] = pre.inner[pre.tx[req.tx].client]

\* C24: in every reachable state (exact finite amounts), the total of every
\* account is the sum of the amounts of its Ok Deposits, minus the sum of
\* the amounts of its Ok Withdrawals, minus the sum of the stored amounts of
\* the Ok Chargebacks made for that client; and a Dispute or a Resolve
\* changes the total of no account.
C24_Conservation ==
    /\ \A c \in DOMAIN inner : IsFinite(net[c]) /\ inner[c].total = net[c]
    /\ \A c \in Clients \ DOMAIN inner : net[c] = Zero
    /\ (Called /\ req.kind \in {"Dispute", "Resolve"}) =>
           \A c \in DOMAIN pre.inner : inner[c].total = pre.inner[c].total

\* a Chargeback has returned Ok for a client who has made a Deposit and a
\* Withdrawal, and has taken the stored amount 1 out of a total that is not 0
C24_Witness ==
    /\ Called /\ req.kind = "Chargeback" /\ res.kind = "Ok"
    /\ StoredAmount(pre.tx[req.tx]) = Fin(1)
    /\ \E a, b \in DOMAIN tx :
           /\ tx[a].kind = "Deposit" /\ tx[a].client = req.client
           /\ tx[b].kind = "Withdrawal" /\ tx[b].client = req.client
    /\ After.total = FSub(Before.total, Fin(1))
    /\ net[req.client] = Fin(Before.total.v - 1)

=============================================================================
